---- MODULE Spec2Model ----
(***************************************************************************)
(* Player session store (src/src/store/playerStore.ts), its persistence   *)
(* adapter (src/unnamed/part_003), and the playback bridge                 *)
(* (src/src/hooks/useAudioPlayer.ts, src/src/services/audioService.ts).    *)
(*                                                                         *)
(* A Song is modelled by its id (1..NumSongs); Null (0) is JS null.        *)
(* Queue indices are 0-based as in the source; At(q, i) reads q[i].        *)
(* The code of every store action is an operator from a "world" record    *)
(* (all the program's state) to the world after the call; the TLA+ action  *)
(* commits that record.  Random draws (Math.random, shuffleArray) are      *)
(* inputs of the operators, chosen with \E by the actions.                 *)
(***************************************************************************)
EXTENDS Integers, Sequences, FiniteSets, TLC

VARIABLES
  currentSong, queue, originalQueue, shuffledQueue, isPlaying, currentTime,
  duration, isLoading, shuffle, repeat, volume,   \* PlayerState fields
  playHistory,                                    \* module-level history
  storage,                                        \* MMKV slots
  mounted, previousSongIdRef,                     \* useAudioPlayer
  sound, sounds, tasks,                           \* AudioService / device / pending awaits
  threw, last                                     \* observation: last call and whether it raised

vars == <<currentSong, queue, originalQueue, shuffledQueue, isPlaying, currentTime,
          duration, isLoading, shuffle, repeat, volume, playHistory, storage,
          mounted, previousSongIdRef, sound, sounds, tasks, threw, last>>

----------------------------------------------------------------------------
(* Bounds of the model *)

NumSongs == 2
MaxQueue == 2
MaxHist == 1
MaxSounds == 3
MaxTasks == 2
MaxCalls == 3

(* Program constants *)

HistoryLimit == 50
VolumeOne == 10

Null == 0
\* An MMKV slot is <<>> when the key is absent and <<v>> when it holds v
Absent == <<>>

Present(v) == <<v>>

Get(slot) == slot[1]
Songs == 1..NumSongs
RepeatModes == {"off", "one", "all"}

\* song.duration (seconds): distinct per song, never 0
SongDuration(song) == song + 1

----------------------------------------------------------------------------
(* Sequence helpers (0-based indices as in the source) *)

At(q, i) == q[i + 1]

InRange(q, i) == i >= 0 /\ i < Len(q)

\* Array.prototype.findIndex((s) => s.id === id): first index or -1
FindIndex(q, id) ==
  IF \E i \in 1..Len(q) : q[i] = id
  THEN (CHOOSE i \in 1..Len(q) : q[i] = id /\ \A j \in 1..(i - 1) : q[j] # id) - 1
  ELSE -1

\* Array.prototype.filter((_, i) => i !== index)
RemoveAt(q, i) == [k \in 1..(Len(q) - 1) |-> IF k <= i THEN q[k] ELSE q[k + 1]]

\* Array.prototype.filter((s) => s.id !== id)
FilterOut(q, id) == SelectSeq(q, LAMBDA s : s # id)

\* Array.prototype.splice(i, 0, x)
InsertAt(q, i, x) ==
  LET p == IF i > Len(q) THEN Len(q) ELSE i
  IN  [k \in 1..(Len(q) + 1) |-> IF k <= p THEN q[k] ELSE IF k = p + 1 THEN x ELSE q[k - 1]]

\* Array.prototype.slice(-n)
LastN(q, n) == IF Len(q) <= n THEN q ELSE SubSeq(q, Len(q) - n + 1, Len(q))

Range(q) == {q[i] : i \in 1..Len(q)}

\* utils/shuffle shuffleArray: some permutation of its argument
shuffleArray(arr) ==
  {[i \in 1..Len(arr) |-> arr[p[i]]] :
     p \in {f \in [1..Len(arr) -> 1..Len(arr)] : \A i, j \in 1..Len(arr) : f[i] = f[j] => i = j}}

----------------------------------------------------------------------------
(* The world record *)

World ==
  [currentSong |-> currentSong, queue |-> queue, originalQueue |-> originalQueue,
   shuffledQueue |-> shuffledQueue, isPlaying |-> isPlaying, currentTime |-> currentTime,
   duration |-> duration, isLoading |-> isLoading, shuffle |-> shuffle, repeat |-> repeat,
   volume |-> volume, playHistory |-> playHistory, storage |-> storage,
   mounted |-> mounted, previousSongIdRef |-> previousSongIdRef,
   sound |-> sound, sounds |-> sounds, tasks |-> tasks, threw |-> FALSE, full |-> FALSE]

----------------------------------------------------------------------------
(* Persistence adapter *)

\* JSON.stringify / JSON.parse of a song or a song list
Stringify(v) == [json |-> v]
Parse(s) == s.json

EmptyStorage ==
  [QUEUE |-> Absent, CURRENT_SONG |-> Absent, REPEAT |-> Absent, SHUFFLE |-> Absent,
   VOLUME |-> Absent, SHUFFLED_QUEUE |-> Absent, ORIGINAL_QUEUE |-> Absent]

saveQueue(w, q) == [w EXCEPT !.storage.QUEUE = Present(Stringify(q))]

saveOriginalQueue(w, q) == [w EXCEPT !.storage.ORIGINAL_QUEUE = Present(Stringify(q))]

saveShuffledQueue(w, q) == [w EXCEPT !.storage.SHUFFLED_QUEUE = Present(Stringify(q))]

loadQueue(st) == IF st.QUEUE # Absent THEN Parse(Get(st.QUEUE)) ELSE <<>>

loadOriginalQueue(st) == IF st.ORIGINAL_QUEUE # Absent THEN Parse(Get(st.ORIGINAL_QUEUE)) ELSE <<>>

loadShuffledQueue(st) == IF st.SHUFFLED_QUEUE # Absent THEN Parse(Get(st.SHUFFLED_QUEUE)) ELSE <<>>

\* savePlayerState(get()): the arrays are always truthy, so all three lists are written
savePlayerState(w) ==
  LET w1 == saveQueue(w, w.queue)
      w2 == [w1 EXCEPT !.storage.CURRENT_SONG =
                          IF w.currentSong # Null
                          THEN Present(Stringify(w.currentSong)) ELSE Absent,
                       !.storage.SHUFFLE = Present(w.shuffle),
                       !.storage.REPEAT = Present(w.repeat),
                       !.storage.VOLUME = Present(w.volume)]
      w3 == saveOriginalQueue(w2, w.originalQueue)
  IN  saveShuffledQueue(w3, w.shuffledQueue)

\* loadPlayerState(): an undefined shuffledQueue is Absent, a defined one Present
loadPlayerState(st) ==
  LET q  == loadQueue(st)
      oq == loadOriginalQueue(st)
      sq == loadShuffledQueue(st)
      sh == IF st.SHUFFLE # Absent THEN Get(st.SHUFFLE) ELSE FALSE
  IN  [currentSong |-> IF st.CURRENT_SONG # Absent THEN Parse(Get(st.CURRENT_SONG)) ELSE Null,
       queue |-> IF sh /\ Len(sq) > 0 THEN sq ELSE q,
       originalQueue |-> IF Len(oq) > 0 THEN oq ELSE q,
       shuffledQueue |-> IF Len(sq) > 0 THEN Present(sq) ELSE Absent,
       shuffle |-> sh,
       repeat |-> IF st.REPEAT # Absent THEN Get(st.REPEAT) ELSE "off",
       volume |-> IF st.VOLUME # Absent THEN Get(st.VOLUME) ELSE VolumeOne]

----------------------------------------------------------------------------
(* AudioService and the useAudioPlayer subscriptions: the synchronous part  *)
(* of each call, up to its first await.  A pending await is a task record   *)
(* [kind, pc, song, target, arg]; `sounds` are the Audio.Sound objects the  *)
(* device has created, `sound` is AudioService.sound (an index, or Null).   *)
(* A sound object occupies one of MaxSounds slots; the slot of an unloaded  *)
(* object that nothing refers to any more is free again.                    *)

NoSound == [song |-> Null, loaded |-> FALSE, playing |-> FALSE, volume |-> 0]

MsPerSecond == 1000

Task(kind, pc, song, target, arg) ==
  [kind |-> kind, pc |-> pc, song |-> song, target |-> target, arg |-> arg]

\* A song whose record carries no link at all (no downloadUrl entry, no
\* encryptedMediaUrl, mediaPreviewUrl or url)
NoLinkSong == NumSongs + 1

\* getDownloadUrl: the link of the song, null for the song without one
getDownloadUrl(song) == IF song = NoLinkSong THEN Null ELSE song

\* loadAndPlay with a catch block that leaves the store as it is
loadAndPlayCatch_KeepsFlags(w) == w

\* loadAndPlay, catch block (lines 141-146), then the catch of the subscription
\* that awaited it (useAudioPlayer lines 64-68)
loadAndPlayCatch(w) ==
  savePlayerState([w EXCEPT !.isLoading = FALSE, !.isPlaying = FALSE])

\* loadAndPlay lines 110-128: resolve the link, flag loading, call createAsync
\* (with the store's volume of the moment)
loadAndPlayCreate(w, song) ==
  IF getDownloadUrl(song) = Null
  THEN loadAndPlayCatch(w)
  ELSE [w EXCEPT !.isLoading = TRUE,
                 !.tasks = Append(@, Task("loadAndPlay", "createAsync", song, Null, w.volume))]

\* loadAndPlay lines 93-108: unload the current sound first when there is one
loadAndPlay(w, song) ==
  IF w.sound # Null
  THEN [w EXCEPT !.tasks = Append(@, Task("loadAndPlay", "unloadAsync", song, w.sound, 0))]
  ELSE loadAndPlayCreate(w, song)

\* stop(), up to `await this.sound.stopAsync()`
stop(w) ==
  IF w.sound = Null
  THEN w
  ELSE [w EXCEPT !.tasks = Append(@, Task("stop", "stopAsync", Null, w.sound, 0))]

\* First subscription (currentSong, isPlaying): its selector returns a fresh
\* object, so the listener runs on every store update
OnSongOrPlaying(w) ==
  IF w.currentSong # Null /\ w.isPlaying /\ w.currentSong # w.previousSongIdRef
  THEN loadAndPlay([w EXCEPT !.previousSongIdRef = w.currentSong], w.currentSong)
  ELSE IF w.currentSong = Null /\ w.previousSongIdRef # Null
       THEN stop([w EXCEPT !.previousSongIdRef = Null])
       ELSE w

\* Second subscription (isPlaying): `store` is the state object captured when the
\* effect ran, whose currentSong is the one of process start (null from the
\* defaults), so the listener returns at its first line
OnIsPlaying(w, playing) == w

\* AudioService.setVolume, up to `await this.sound.setVolumeAsync`; without a
\* sound it calls the store's setVolume at once (same value: a persist only)
audioSetVolume(w, v) ==
  LET clampedVolume == IF v < 0 THEN 0 ELSE IF v > VolumeOne THEN VolumeOne ELSE v
  IN  IF w.sound # Null
      THEN [w EXCEPT !.tasks = Append(@, Task("setVolume", "setVolumeAsync", Null, w.sound, clampedVolume))]
      ELSE savePlayerState([w EXCEPT !.volume = clampedVolume])

\* Third subscription (volume)
OnVolume(w, v) == audioSetVolume(w, v)

\* zustand set(): the listeners run synchronously, in subscription order.  The
\* hook subscribes with (selector, listener) pairs; a listener runs when the
\* selected value changes under Object.is, as the hook's calls are written.
Notify(old, new) ==
  IF ~new.mounted
  THEN new
  ELSE LET a == OnSongOrPlaying(new)
           b == IF old.isPlaying # new.isPlaying THEN OnIsPlaying(a, new.isPlaying) ELSE a
       IN  IF old.volume # new.volume THEN OnVolume(b, new.volume) ELSE b

----------------------------------------------------------------------------
(* Queue selection helpers *)

getEffectiveQueue(w) ==
  IF w.shuffle /\ Len(w.shuffledQueue) > 0 THEN w.shuffledQueue
  ELSE IF ~w.shuffle /\ Len(w.originalQueue) > 0 THEN w.originalQueue
  ELSE w.queue

\* Math.floor(Math.random() * len), redrawn while it equals currentIndex and len > 1
RandomOther(currentIndex, len) ==
  IF len > 1 THEN (0..(len - 1)) \ {currentIndex} ELSE 0..(len - 1)

\* The values getNextSongIndex can return (Null is its `null`), over all random draws.
\* Indices are 0-based, so Null is kept apart as -1.
NoIndex == -1

\* getNextSongIndex wrapping to 0 at the end whatever the repeat mode
getNextSongIndex_WrapsWhenOff(currentIndex, len, shuf, rep) ==
  IF len = 0 THEN {NoIndex}
  ELSE IF rep = "one" THEN {currentIndex}
  ELSE IF rep = "all" /\ currentIndex = len - 1
       THEN (IF shuf THEN 0..(len - 1) ELSE {0})
  ELSE IF currentIndex < len - 1
       THEN (IF shuf THEN RandomOther(currentIndex, len) ELSE {currentIndex + 1})
  ELSE IF shuf THEN RandomOther(currentIndex, len) ELSE {0}

\* getNextSongIndex staying on the last index when repeat is off
getNextSongIndex_ClampsAtEnd(currentIndex, len, shuf, rep) ==
  IF len = 0 THEN {NoIndex}
  ELSE IF rep = "one" THEN {currentIndex}
  ELSE IF rep = "all" /\ currentIndex = len - 1
       THEN (IF shuf THEN 0..(len - 1) ELSE {0})
  ELSE IF currentIndex < len - 1
       THEN (IF shuf THEN RandomOther(currentIndex, len) ELSE {currentIndex + 1})
  ELSE IF rep = "all"
       THEN (IF shuf THEN RandomOther(currentIndex, len) ELSE {0})
  ELSE {len - 1}

\* getNextSongIndex without the wrap of repeat=all
getNextSongIndex_NoWrap(currentIndex, len, shuf, rep) ==
  IF len = 0 THEN {NoIndex}
  ELSE IF rep = "one" THEN {currentIndex}
  ELSE IF currentIndex < len - 1
       THEN (IF shuf THEN RandomOther(currentIndex, len) ELSE {currentIndex + 1})
  ELSE {NoIndex}

\* getNextSongIndex without the repeat=one test
getNextSongIndex_IgnoresRepeatOne(currentIndex, len, shuf, rep) ==
  IF len = 0 THEN {NoIndex}
  ELSE IF rep = "all" /\ currentIndex = len - 1
       THEN (IF shuf THEN 0..(len - 1) ELSE {0})
  ELSE IF currentIndex < len - 1
       THEN (IF shuf THEN RandomOther(currentIndex, len) ELSE {currentIndex + 1})
  ELSE IF rep = "all"
       THEN (IF shuf THEN RandomOther(currentIndex, len) ELSE {0})
  ELSE {NoIndex}

getNextSongIndex(currentIndex, len, shuf, rep) ==
  IF len = 0 THEN {NoIndex}
  ELSE IF rep = "one" THEN {currentIndex}
  ELSE IF rep = "all" /\ currentIndex = len - 1
       THEN (IF shuf THEN 0..(len - 1) ELSE {0})
  ELSE IF currentIndex < len - 1
       THEN (IF shuf THEN RandomOther(currentIndex, len) ELSE {currentIndex + 1})
  ELSE IF rep = "all"
       THEN (IF shuf THEN RandomOther(currentIndex, len) ELSE {0})
  ELSE {NoIndex}

\* The values getPreviousSongIndex can return
getPreviousSongIndex(currentIndex, q, shuf, rep, history) ==
  IF Len(q) = 0 THEN {NoIndex}
  ELSE IF shuf
       THEN (IF Len(history) > 0 /\ FindIndex(q, history[Len(history)]) # -1
             THEN {FindIndex(q, history[Len(history)])}
             ELSE RandomOther(currentIndex, Len(q)))
  ELSE IF currentIndex > 0 THEN {currentIndex - 1}
  ELSE IF rep = "all" THEN {Len(q) - 1}
  ELSE {NoIndex}

----------------------------------------------------------------------------
(* Store actions: the world after the call *)

initializeFromStorage(w) ==
  LET state == loadPlayerState(w.storage)
  IN  Notify(w, [w EXCEPT !.currentSong = state.currentSong,
                          !.queue = state.queue,
                          !.originalQueue = state.originalQueue,
                          !.shuffledQueue = IF state.shuffledQueue # Absent
                                            THEN Get(state.shuffledQueue) ELSE <<>>,
                          !.shuffle = state.shuffle,
                          !.repeat = state.repeat,
                          !.volume = state.volume])

\* The history bookkeeping of playSong (lines 207-215)
playSongHistory(history, current, song) ==
  LET trimmed == IF Len(history) > HistoryLimit THEN LastN(history, HistoryLimit) ELSE history
  IN  IF song # current /\ current # Null THEN Append(trimmed, current) ELSE trimmed

\* playSong prepending an absent song to originalQueue under shuffle as well
playSong_AlwaysPrepends(w, song) ==
  LET effectiveQueue == getEffectiveQueue(w)
      songIndex == FindIndex(effectiveQueue, song)
      h == [w EXCEPT !.playHistory = playSongHistory(w.playHistory, w.currentSong, song)]
  IN  IF songIndex = -1
      THEN LET newQueue == <<song>> \o effectiveQueue
               newOriginalQueue == <<song>> \o w.originalQueue
               w1 == Notify(h, [h EXCEPT !.currentSong = song,
                                         !.queue = newQueue,
                                         !.originalQueue = newOriginalQueue,
                                         !.isPlaying = TRUE,
                                         !.currentTime = 0,
                                         !.duration = SongDuration(song),
                                         !.isLoading = TRUE])
           IN  savePlayerState(saveOriginalQueue(saveQueue(w1, newQueue), newOriginalQueue))
      ELSE savePlayerState(Notify(h, [h EXCEPT !.currentSong = song,
                                               !.isPlaying = TRUE,
                                               !.currentTime = 0,
                                               !.duration = SongDuration(song),
                                               !.isLoading = TRUE]))

playSong(w, song) ==
  LET effectiveQueue == getEffectiveQueue(w)
      songIndex == FindIndex(effectiveQueue, song)
      h == [w EXCEPT !.playHistory = playSongHistory(w.playHistory, w.currentSong, song)]
  IN  IF songIndex = -1
      THEN LET newQueue == <<song>> \o effectiveQueue
               newOriginalQueue == IF w.shuffle THEN w.originalQueue
                                   ELSE <<song>> \o w.originalQueue
               w1 == Notify(h, [h EXCEPT !.currentSong = song,
                                         !.queue = newQueue,
                                         !.originalQueue = newOriginalQueue,
                                         !.isPlaying = TRUE,
                                         !.currentTime = 0,
                                         !.duration = SongDuration(song),
                                         !.isLoading = TRUE])
           IN  savePlayerState(saveOriginalQueue(saveQueue(w1, newQueue), newOriginalQueue))
      ELSE savePlayerState(Notify(h, [h EXCEPT !.currentSong = song,
                                               !.isPlaying = TRUE,
                                               !.currentTime = 0,
                                               !.duration = SongDuration(song),
                                               !.isLoading = TRUE]))

pauseSong(w) == savePlayerState(Notify(w, [w EXCEPT !.isPlaying = FALSE]))

\* resumeSong without its currentSong test
resumeSong_NoCurrentTest(w) == savePlayerState(Notify(w, [w EXCEPT !.isPlaying = TRUE]))

resumeSong(w) ==
  IF w.currentSong # Null
  THEN savePlayerState(Notify(w, [w EXCEPT !.isPlaying = TRUE]))
  ELSE w

\* The history bookkeeping of nextSong (lines 274-280)
nextSongHistory(history, current, next) ==
  IF current # next
  THEN Append(IF Len(history) > HistoryLimit THEN LastN(history, HistoryLimit) ELSE history,
              current)
  ELSE history

\* nextSong with the index getNextSongIndex returned
nextSong(w, nextIndex) ==
  LET effectiveQueue == getEffectiveQueue(w)
      currentIndex == FindIndex(effectiveQueue, w.currentSong)
  IN  IF w.currentSong = Null \/ Len(w.queue) = 0 THEN w
      ELSE IF currentIndex = -1 THEN w
      ELSE IF nextIndex # NoIndex /\ nextIndex < Len(effectiveQueue)
           THEN LET next == At(effectiveQueue, nextIndex)
                    h == [w EXCEPT !.playHistory =
                                      nextSongHistory(w.playHistory, w.currentSong, next)]
                IN  savePlayerState(Notify(h, [h EXCEPT !.currentSong = next,
                                                        !.isPlaying = TRUE,
                                                        !.currentTime = 0,
                                                        !.duration = SongDuration(next),
                                                        !.isLoading = TRUE]))
           ELSE savePlayerState(Notify(w, [w EXCEPT !.isPlaying = FALSE]))

\* The indices nextSong can get from getNextSongIndex in world w
nextSongChoices(w) ==
  LET effectiveQueue == getEffectiveQueue(w)
      currentIndex == FindIndex(effectiveQueue, w.currentSong)
  IN  IF w.currentSong = Null \/ Len(w.queue) = 0 \/ currentIndex = -1
      THEN {NoIndex}
      ELSE getNextSongIndex(currentIndex, Len(effectiveQueue), w.shuffle, w.repeat)

\* previousSong going back without popping the history
previousSong_NoPop(w, previousIndex) ==
  LET effectiveQueue == getEffectiveQueue(w)
      currentIndex == FindIndex(effectiveQueue, w.currentSong)
  IN  IF w.currentSong = Null \/ Len(w.queue) = 0 THEN w
      ELSE IF currentIndex = -1 THEN w
      ELSE IF previousIndex # NoIndex /\ previousIndex >= 0 /\ previousIndex < Len(effectiveQueue)
           THEN LET prev == At(effectiveQueue, previousIndex)
                IN  savePlayerState(Notify(w, [w EXCEPT !.currentSong = prev,
                                                        !.isPlaying = TRUE,
                                                        !.currentTime = 0,
                                                        !.duration = SongDuration(prev),
                                                        !.isLoading = TRUE]))
           ELSE w

\* previousSong with the index getPreviousSongIndex returned
previousSong(w, previousIndex) ==
  LET effectiveQueue == getEffectiveQueue(w)
      currentIndex == FindIndex(effectiveQueue, w.currentSong)
  IN  IF w.currentSong = Null \/ Len(w.queue) = 0 THEN w
      ELSE IF currentIndex = -1 THEN w
      ELSE IF previousIndex # NoIndex /\ previousIndex >= 0 /\ previousIndex < Len(effectiveQueue)
           THEN LET prev == At(effectiveQueue, previousIndex)
                    h == IF w.shuffle /\ Len(w.playHistory) > 0
                            /\ w.playHistory[Len(w.playHistory)] = prev
                         THEN [w EXCEPT !.playHistory = SubSeq(@, 1, Len(@) - 1)]
                         ELSE w
                IN  savePlayerState(Notify(h, [h EXCEPT !.currentSong = prev,
                                                        !.isPlaying = TRUE,
                                                        !.currentTime = 0,
                                                        !.duration = SongDuration(prev),
                                                        !.isLoading = TRUE]))
           ELSE w

previousSongChoices(w) ==
  LET effectiveQueue == getEffectiveQueue(w)
      currentIndex == FindIndex(effectiveQueue, w.currentSong)
  IN  IF w.currentSong = Null \/ Len(w.queue) = 0 \/ currentIndex = -1
      THEN {NoIndex}
      ELSE getPreviousSongIndex(currentIndex, effectiveQueue, w.shuffle, w.repeat, w.playHistory)

\* Math.max(0, Math.min(time, duration))
ClampTime(time, dur) == IF (IF time < dur THEN time ELSE dur) > 0
                        THEN (IF time < dur THEN time ELSE dur) ELSE 0

\* seekTo storing the requested time as it is
seekTo_NoClamp(w, time) == Notify(w, [w EXCEPT !.currentTime = time])

seekTo(w, time) == Notify(w, [w EXCEPT !.currentTime = ClampTime(time, w.duration)])

\* The lists addToQueue can get from shuffleArray in world w
addToQueueChoices(w, song) ==
  IF w.shuffle THEN shuffleArray(Append(w.originalQueue, song)) ELSE {<<>>}

\* addToQueue without its `exists` test
addToQueue_NoExistsTest(w, song, newShuffledQueue) ==
  LET newQueue == Append(w.queue, song)
      newOriginalQueue == Append(w.originalQueue, song)
      w1 == Notify(w, [w EXCEPT
                     !.queue = IF w.shuffle /\ Len(newShuffledQueue) > 0
                               THEN newShuffledQueue ELSE newQueue,
                     !.originalQueue = newOriginalQueue,
                     !.shuffledQueue = newShuffledQueue])
      w2 == saveOriginalQueue(saveQueue(w1, newQueue), newOriginalQueue)
      w3 == IF w.shuffle /\ Len(newShuffledQueue) > 0
            THEN saveShuffledQueue(w2, newShuffledQueue) ELSE w2
  IN  savePlayerState(w3)

\* addToQueue with the list shuffleArray returned (<<>> when shuffle is off)
addToQueue(w, song, newShuffledQueue) ==
  LET exists == song \in Range(w.queue)
      newQueue == Append(w.queue, song)
      newOriginalQueue == Append(w.originalQueue, song)
  IN  IF exists THEN w
      ELSE LET w1 == Notify(w, [w EXCEPT
                              !.queue = IF w.shuffle /\ Len(newShuffledQueue) > 0
                                        THEN newShuffledQueue ELSE newQueue,
                              !.originalQueue = newOriginalQueue,
                              !.shuffledQueue = newShuffledQueue])
               w2 == saveOriginalQueue(saveQueue(w1, newQueue), newOriginalQueue)
               w3 == IF w.shuffle /\ Len(newShuffledQueue) > 0
                     THEN saveShuffledQueue(w2, newShuffledQueue) ELSE w2
           IN  savePlayerState(w3)

\* A TypeError raised before the action's set(): the store is left as it was
Throw(w) == [w EXCEPT !.threw = TRUE]

\* The indices removeFromQueue can get from getNextSongIndex in world w
removeFromQueueChoices(w, index) ==
  IF InRange(w.queue, index) /\ InRange(getEffectiveQueue(w), index)
  THEN getNextSongIndex(index, Len(getEffectiveQueue(w)) - 1, w.shuffle, w.repeat)
  ELSE {NoIndex}

\* removeFromQueue with the index getNextSongIndex returned (read only when the
\* removed song is the current one)
removeFromQueue(w, index, nextIndex) ==
  LET effectiveQueue == getEffectiveQueue(w)
  IN  IF index < 0 \/ index >= Len(w.queue) THEN w
      ELSE IF ~InRange(effectiveQueue, index)
           THEN Throw(w)   \* removedSong is undefined: `removedSong.id` raises
      ELSE
        LET removedSong == At(effectiveQueue, index)
            newEffectiveQueue == RemoveAt(effectiveQueue, index)
            newOriginalQueue == FilterOut(w.originalQueue, removedSong)
            newShuffledQueue == FilterOut(w.shuffledQueue, removedSong)
            q == [w EXCEPT !.queue = newEffectiveQueue,
                           !.originalQueue = newOriginalQueue,
                           !.shuffledQueue = IF w.shuffle THEN newShuffledQueue ELSE <<>>]
            w1 == IF w.currentSong # Null /\ w.currentSong = removedSong
                  THEN IF nextIndex # NoIndex /\ nextIndex < Len(newEffectiveQueue)
                       THEN Notify(w, [q EXCEPT !.currentSong = At(newEffectiveQueue, nextIndex),
                                                !.isPlaying = TRUE,
                                                !.currentTime = 0,
                                                !.duration = SongDuration(At(newEffectiveQueue, nextIndex))])
                       ELSE Notify(w, [q EXCEPT !.currentSong = Null,
                                                !.isPlaying = FALSE,
                                                !.currentTime = 0,
                                                !.duration = 0])
                  ELSE Notify(w, q)
            w2 == saveOriginalQueue(saveQueue(w1, newEffectiveQueue), newOriginalQueue)
            w3 == IF w.shuffle THEN saveShuffledQueue(w2, newShuffledQueue) ELSE w2
        IN  savePlayerState(w3)

\* Array.prototype.findIndex((s) => s.id === a || s.id === b) with ids in `ids`
FindFirst(q, ids) ==
  IF \E i \in 1..Len(q) : q[i] \in ids
  THEN (CHOOSE i \in 1..Len(q) : q[i] \in ids /\ \A j \in 1..(i - 1) : q[j] \notin ids) - 1
  ELSE -1

\* reorderQueue without its closing savePlayerState(get())
reorderQueue_NoFinalSave(w, from, to) ==
  LET effectiveQueue == getEffectiveQueue(w)
  IN  IF from < 0 \/ from >= Len(w.queue) \/ to < 0 \/ to >= Len(w.queue) THEN w
      ELSE IF ~InRange(effectiveQueue, from) THEN Throw(w)
      ELSE
        LET removed == At(effectiveQueue, from)
            newEffectiveQueue == InsertAt(RemoveAt(effectiveQueue, from), to, removed)
            originalFromIndex == FindIndex(w.originalQueue, removed)
            originalToIndex ==
              FindFirst(w.originalQueue,
                        (IF InRange(effectiveQueue, to) THEN {At(effectiveQueue, to)} ELSE {})
                          \cup {removed})
            newOriginalQueue ==
              IF originalFromIndex # -1 /\ originalToIndex # -1
              THEN InsertAt(RemoveAt(w.originalQueue, originalFromIndex), originalToIndex,
                            At(w.originalQueue, originalFromIndex))
              ELSE w.originalQueue
            w1 == Notify(w, [w EXCEPT !.queue = IF w.shuffle THEN w.shuffledQueue
                                                ELSE newEffectiveQueue,
                                      !.originalQueue = newOriginalQueue])
        IN  saveOriginalQueue(saveQueue(w1, newEffectiveQueue), newOriginalQueue)

reorderQueue(w, from, to) ==
  LET effectiveQueue == getEffectiveQueue(w)
  IN  IF from < 0 \/ from >= Len(w.queue) \/ to < 0 \/ to >= Len(w.queue) THEN w
      ELSE IF ~InRange(effectiveQueue, from)
           THEN Throw(w)   \* effectiveQueue[from] is undefined: `.id` raises
      ELSE
        LET removed == At(effectiveQueue, from)
            newEffectiveQueue == InsertAt(RemoveAt(effectiveQueue, from), to, removed)
            originalFromIndex == FindIndex(w.originalQueue, removed)
            originalToIndex ==
              FindFirst(w.originalQueue,
                        (IF InRange(effectiveQueue, to) THEN {At(effectiveQueue, to)} ELSE {})
                          \cup {removed})
            newOriginalQueue ==
              IF originalFromIndex # -1 /\ originalToIndex # -1
              THEN InsertAt(RemoveAt(w.originalQueue, originalFromIndex), originalToIndex,
                            At(w.originalQueue, originalFromIndex))
              ELSE w.originalQueue
            w1 == Notify(w, [w EXCEPT !.queue = IF w.shuffle THEN w.shuffledQueue
                                                ELSE newEffectiveQueue,
                                      !.originalQueue = newOriginalQueue])
        IN  savePlayerState(saveOriginalQueue(saveQueue(w1, newEffectiveQueue), newOriginalQueue))

\* clearQueue forgetting the shuffled list
clearQueue_KeepsShuffled(w) ==
  LET w1 == Notify(w, [w EXCEPT !.queue = <<>>, !.originalQueue = <<>>,
                                !.currentSong = Null, !.isPlaying = FALSE,
                                !.currentTime = 0, !.duration = 0])
  IN  savePlayerState(saveOriginalQueue(saveQueue(w1, <<>>), <<>>))

clearQueue(w) ==
  LET w1 == Notify(w, [w EXCEPT !.queue = <<>>, !.originalQueue = <<>>, !.shuffledQueue = <<>>,
                                !.currentSong = Null, !.isPlaying = FALSE,
                                !.currentTime = 0, !.duration = 0])
  IN  savePlayerState(saveShuffledQueue(saveOriginalQueue(saveQueue(w1, <<>>), <<>>), <<>>))

\* The lists toggleShuffle can get from shuffleArray in world w
toggleShuffleChoices(w) ==
  IF ~w.shuffle
  THEN shuffleArray(IF Len(w.originalQueue) > 0 THEN w.originalQueue ELSE w.queue)
  ELSE {<<>>}

\* toggleShuffle with the list shuffleArray returned (read only when enabling)
toggleShuffle(w, shuffled) ==
  LET newShuffle == ~w.shuffle
  IN  IF newShuffle
      THEN savePlayerState(saveShuffledQueue(
             Notify(w, [w EXCEPT !.shuffle = newShuffle,
                                 !.shuffledQueue = shuffled,
                                 !.queue = shuffled]), shuffled))
      ELSE savePlayerState(
             Notify(w, [w EXCEPT !.shuffle = newShuffle,
                                 !.queue = IF Len(w.originalQueue) > 0
                                           THEN w.originalQueue ELSE w.queue]))

setRepeat(w, mode) == savePlayerState(Notify(w, [w EXCEPT !.repeat = mode]))

setCurrentTime(w, time) == Notify(w, [w EXCEPT !.currentTime = ClampTime(time, w.duration)])

setDuration(w, d) == Notify(w, [w EXCEPT !.duration = IF d > 0 THEN d ELSE 0])

setIsPlaying(w, playing) == savePlayerState(Notify(w, [w EXCEPT !.isPlaying = playing]))

\* setVolume storing the requested volume as it is
setVolume_NoClamp(w, v) == savePlayerState(Notify(w, [w EXCEPT !.volume = v]))

setVolume(w, v) ==
  savePlayerState(Notify(w, [w EXCEPT !.volume =
                               IF v < 0 THEN 0 ELSE IF v > VolumeOne THEN VolumeOne ELSE v]))

setCurrentSong(w, song) == savePlayerState(Notify(w, [w EXCEPT !.currentSong = song]))

setIsLoading(w, loading) == Notify(w, [w EXCEPT !.isLoading = loading])

----------------------------------------------------------------------------
(* AudioService: what runs when an await resolves, and the status callback *)

RemoveTask(w, i) == [w EXCEPT !.tasks = RemoveAt(@, i - 1)]

\* The device unloads (or stops) a sound object
DeviceUnload(w, k) == [w EXCEPT !.sounds[k].loaded = FALSE, !.sounds[k].playing = FALSE]

\* loadAndPlay after `await this.sound.unloadAsync()` (lines 107-128)
loadAndPlayUnloaded(w, i) ==
  LET t == w.tasks[i]
      w1 == RemoveTask(DeviceUnload(w, t.target), i)
  IN  loadAndPlayCreate([w1 EXCEPT !.sound = Null], t.song)

\* loadAndPlay after createAsync resolved (lines 130-138): a new sound object,
\* loaded and playing (shouldPlay), becomes this.sound
loadAndPlayCreated(w, i) ==
  LET t == w.tasks[i]
      w1 == RemoveTask(w, i)
      free == {k \in DOMAIN w.sounds : w.sounds[k] = NoSound}
      new == IF free = {} THEN Null ELSE CHOOSE k \in free : \A j \in free : k <= j
      w2 == IF free = {}
            THEN [w1 EXCEPT !.full = TRUE]
            ELSE [w1 EXCEPT !.sounds[new] = [song |-> t.song, loaded |-> TRUE, playing |-> TRUE,
                                               volume |-> t.arg],
                            !.sound = new]
  IN  setIsLoading(setIsPlaying(setCurrentTime(setDuration(setCurrentSong(w2, t.song),
        SongDuration(t.song)), 0), TRUE), FALSE)

\* createAsync rejected: the catch of loadAndPlay (lines 141-146), then the catch
\* of the subscription that awaited it (useAudioPlayer lines 64-68)
loadAndPlayRejected(w, i) ==
  setIsLoading(setIsPlaying(setIsPlaying(setIsLoading(RemoveTask(w, i), FALSE), FALSE), FALSE), FALSE)

\* stop() after `await this.sound.stopAsync()`: the call rejects on a sound that is
\* no longer loaded; the next line reads this.sound again
stopStopped(w, i) ==
  LET t == w.tasks[i]
      w1 == RemoveTask(w, i)
  IN  IF ~w.sounds[t.target].loaded \/ w.sound = Null
      THEN Throw(IF w.sounds[t.target].loaded
                 THEN [w1 EXCEPT !.sounds[t.target].playing = FALSE] ELSE w1)
      ELSE [w1 EXCEPT !.sounds[t.target].playing = FALSE,
                      !.tasks = Append(@, Task("stop", "unloadAsync", Null, w.sound, 0))]

\* stop() after `await this.sound.unloadAsync()` (lines 195-200)
stopUnloaded(w, i) ==
  LET t == w.tasks[i]
      w1 == [RemoveTask(DeviceUnload(w, t.target), i) EXCEPT !.sound = Null]
  IN  setIsLoading(setCurrentTime(setIsPlaying(w1, FALSE), 0), FALSE)

\* AudioService.setVolume after `await this.sound.setVolumeAsync(clampedVolume)`
\* (lines 239-243); the call rejects on a sound that is no longer loaded, and the
\* subscription that awaited it logs the error
audioSetVolumeDone(w, i) ==
  LET t == w.tasks[i]
      w1 == RemoveTask(w, i)
  IN  IF ~w.sounds[t.target].loaded
      THEN w1
      ELSE setVolume([w1 EXCEPT !.sounds[t.target].volume = t.arg], t.arg)

\* AudioService.seekTo, up to `await this.sound.setPositionAsync(position)`
audioSeekTo(w, position) ==
  IF w.sound = Null
  THEN Throw(w)
  ELSE [w EXCEPT !.tasks = Append(@, Task("seekTo", "setPositionAsync", Null, w.sound, position))]

\* handlePlaybackCompletion, up to its first await; nextIndex is what
\* getNextSongIndex returns to nextSong
handlePlaybackCompletion(w, nextIndex) ==
  IF w.repeat = "one"
  THEN IF w.sound # Null
       THEN [w EXCEPT !.tasks = Append(@, Task("completion", "setPositionAsync", Null, w.sound, 0))]
       ELSE w
  ELSE nextSong(w, nextIndex)

\* onPlaybackStatusUpdate for a loaded status (lines 276-308); the registered
\* callback of the hook does nothing
onPlaybackStatusUpdate(w, status, nextIndex) ==
  LET w1 == setCurrentTime(w, status.positionMillis \div MsPerSecond)
      w2 == IF status.durationMillis \div MsPerSecond > 0
            THEN setDuration(w1, status.durationMillis \div MsPerSecond) ELSE w1
      w3 == setIsPlaying(w2, status.isPlaying)
  IN  IF status.didJustFinish /\ ~status.isLooping /\ status.isPlaying = FALSE
      THEN handlePlaybackCompletion(w3, nextIndex)
      ELSE w3

\* handlePlaybackCompletion after `await this.seekTo(0)`: seekTo stores the time
\* (line 225), then play() runs up to `await this.sound.playAsync()`.  The seek
\* rejects on a sound that is no longer loaded, and play() throws without a
\* sound (after its own catch has cleared isPlaying): the catch of lines 341-344
completionSought(w, i) ==
  LET t == w.tasks[i]
      w1 == RemoveTask(w, i)
      w2 == setCurrentTime(w1, t.arg \div MsPerSecond)
  IN  IF ~w.sounds[t.target].loaded
      THEN setIsPlaying(w1, FALSE)
      ELSE IF w2.sound = Null
           THEN setIsPlaying(setIsPlaying(w2, FALSE), FALSE)
           ELSE [w2 EXCEPT !.tasks = Append(@, Task("completion", "playAsync", Null, w2.sound, 0))]

\* handlePlaybackCompletion after `await this.sound.playAsync()` inside play()
\* (lines 157-163)
completionPlayed(w, i) ==
  LET t == w.tasks[i]
      w1 == RemoveTask(w, i)
  IN  IF ~w.sounds[t.target].loaded
      THEN setIsPlaying(setIsPlaying(w1, FALSE), FALSE)
      ELSE setIsPlaying([w1 EXCEPT !.sounds[t.target].playing = TRUE], TRUE)

\* onPlaybackStatusUpdate for an unloaded status that carries an error (lines 266-274)
onPlaybackStatusError(w) == setIsPlaying(setIsLoading(w, FALSE), FALSE)

----------------------------------------------------------------------------
(* State machine *)

\* The store as created from an empty storage (lines 171-185), with the
\* useAudioPlayer hook mounted (and the audio service initialized) or not
Defaults(isMounted) ==
  /\ currentSong = Null
  /\ queue = <<>>
  /\ originalQueue = <<>>
  /\ shuffledQueue = <<>>
  /\ isPlaying = FALSE
  /\ currentTime = 0
  /\ duration = 0
  /\ isLoading = FALSE
  /\ shuffle = FALSE
  /\ repeat = "off"
  /\ volume = VolumeOne
  /\ playHistory = <<>>
  /\ storage = EmptyStorage
  /\ mounted = isMounted
  /\ previousSongIdRef = Null
  /\ sound = Null
  /\ sounds = [k \in 1..MaxSounds |-> NoSound]
  /\ tasks = <<>>
  /\ threw = FALSE
  /\ last = [op |-> "create", arg |-> <<>>, again |-> FALSE, calls |-> 0]

Init == Defaults(FALSE)

InitMounted == Defaults(TRUE)

\* The sound objects of w that are still loaded or referred to
Collect(w) ==
  [k \in DOMAIN w.sounds |->
     IF w.sounds[k].loaded \/ w.sound = k
        \/ \E i \in 1..Len(w.tasks) : w.tasks[i].target = k
     THEN w.sounds[k] ELSE NoSound]

\* The world w becomes the state; histBound caps the history length
Commit(w, histBound) ==
  /\ Len(w.playHistory) <= histBound
  /\ Len(w.queue) <= MaxQueue
  /\ Len(w.originalQueue) <= MaxQueue
  /\ Len(w.shuffledQueue) <= MaxQueue
  /\ Len(w.tasks) <= MaxTasks
  /\ ~w.full
  /\ currentSong' = w.currentSong
  /\ queue' = w.queue
  /\ originalQueue' = w.originalQueue
  /\ shuffledQueue' = w.shuffledQueue
  /\ isPlaying' = w.isPlaying
  /\ currentTime' = w.currentTime
  /\ duration' = w.duration
  /\ isLoading' = w.isLoading
  /\ shuffle' = w.shuffle
  /\ repeat' = w.repeat
  /\ volume' = w.volume
  /\ playHistory' = w.playHistory
  /\ storage' = w.storage
  /\ mounted' = w.mounted
  /\ previousSongIdRef' = w.previousSongIdRef
  /\ sound' = w.sound
  /\ sounds' = Collect(w)
  /\ tasks' = w.tasks
  /\ threw' = w.threw

\* One call `op(arg)` of the user interface that leaves the world w.  `last`
\* records the call (with its song argument, if it has one), whether it repeats
\* the call before it, and how many calls there were (counted up to MaxCalls).
Step(w, op, arg, histBound) ==
  /\ Commit(w, histBound)
  /\ last' = [op |-> op, arg |-> arg, again |-> (last.op = op /\ last.arg = arg),
              calls |-> IF last.calls < MaxCalls THEN last.calls + 1 ELSE MaxCalls]

\* One resolved await or device callback that leaves the world w
Event(w) ==
  /\ Commit(w, MaxHist)
  /\ last' = last

IndexInputs == -1..(MaxQueue - 1)

InitializeFromStorage == Step(initializeFromStorage(World), "initializeFromStorage", <<>>, MaxHist)

PlaySong(song) == Step(playSong(World, song), "playSong", <<song>>, MaxHist)

PauseSong == Step(pauseSong(World), "pauseSong", <<>>, MaxHist)

ResumeSong == Step(resumeSong(World), "resumeSong", <<>>, MaxHist)

NextSong ==
  \E nextIndex \in nextSongChoices(World) :
    Step(nextSong(World, nextIndex), "nextSong", <<>>, MaxHist)

PreviousSong ==
  \E previousIndex \in previousSongChoices(World) :
    Step(previousSong(World, previousIndex), "previousSong", <<>>, MaxHist)

AddToQueue(song) ==
  \E newShuffledQueue \in addToQueueChoices(World, song) :
    Step(addToQueue(World, song, newShuffledQueue), "addToQueue", <<song>>, MaxHist)

RemoveFromQueue(index) ==
  \E nextIndex \in removeFromQueueChoices(World, index) :
    Step(removeFromQueue(World, index, nextIndex), "removeFromQueue", <<>>, MaxHist)

ReorderQueue(from, to) ==
  Step(reorderQueue(World, from, to), "reorderQueue", <<>>, MaxHist)

ClearQueue == Step(clearQueue(World), "clearQueue", <<>>, MaxHist)

ToggleShuffle ==
  \E shuffled \in toggleShuffleChoices(World) :
    Step(toggleShuffle(World, shuffled), "toggleShuffle", <<>>, MaxHist)

SetRepeat(mode) == Step(setRepeat(World, mode), "setRepeat", <<>>, MaxHist)

\* The user-level actions of the store, with the hook not mounted
Next ==
  \/ InitializeFromStorage
  \/ \E song \in Songs : PlaySong(song)
  \/ PauseSong
  \/ ResumeSong
  \/ NextSong
  \/ PreviousSong
  \/ \E song \in Songs : AddToQueue(song)
  \/ \E index \in IndexInputs : RemoveFromQueue(index)
  \/ \E from \in IndexInputs, to \in IndexInputs : ReorderQueue(from, to)
  \/ ClearQueue
  \/ ToggleShuffle
  \/ \E mode \in RepeatModes : SetRepeat(mode)

Spec == Init /\ [][Next]_vars

----------------------------------------------------------------------------
(* The bridge and the device *)

IsTask(i, kind, pc) == i \in 1..Len(tasks) /\ tasks[i].kind = kind /\ tasks[i].pc = pc

TaskIds == 1..MaxTasks

SoundIds == 1..MaxSounds

LoadUnloadDone(i) ==
  /\ IsTask(i, "loadAndPlay", "unloadAsync")
  /\ Event(loadAndPlayUnloaded(World, i))

LoadCreateDone(i) ==
  /\ IsTask(i, "loadAndPlay", "createAsync")
  /\ Event(loadAndPlayCreated(World, i))

LoadCreateFails(i) ==
  /\ IsTask(i, "loadAndPlay", "createAsync")
  /\ Event(loadAndPlayRejected(World, i))

StopStopDone(i) ==
  /\ IsTask(i, "stop", "stopAsync")
  /\ Event(stopStopped(World, i))

StopUnloadDone(i) ==
  /\ IsTask(i, "stop", "unloadAsync")
  /\ Event(stopUnloaded(World, i))

\* A periodic status of a loaded sound: what the device is doing, at a position
DeviceStatus(k, positionMillis, knowsDuration) ==
  /\ sounds[k].loaded
  /\ Event(onPlaybackStatusUpdate(World,
       [isPlaying |-> sounds[k].playing,
        positionMillis |-> positionMillis,
        durationMillis |-> IF knowsDuration THEN SongDuration(sounds[k].song) * MsPerSecond ELSE 0,
        didJustFinish |-> FALSE,
        isLooping |-> FALSE], NoIndex))

\* The awaits of loadAndPlay resolve (in any order) and loaded sounds report
LoadEvents ==
  \/ \E i \in TaskIds : LoadUnloadDone(i)
  \/ \E i \in TaskIds : LoadCreateDone(i)
  \/ \E k \in SoundIds, positionMillis \in {0, MsPerSecond}, knowsDuration \in BOOLEAN :
       DeviceStatus(k, positionMillis, knowsDuration)

StopEvents ==
  \/ \E i \in TaskIds : StopStopDone(i)
  \/ \E i \in TaskIds : StopUnloadDone(i)

\* The user plays, pauses and clears (MaxCalls calls at most) while the bridge
\* drives the device
BridgePlaySong(song) == last.calls < MaxCalls /\ PlaySong(song)

BridgePauseSong == last.calls < MaxCalls /\ PauseSong

BridgeClearQueue == last.calls < MaxCalls /\ ClearQueue

NextBridge ==
  \/ \E song \in Songs : BridgePlaySong(song)
  \/ BridgePauseSong
  \/ BridgeClearQueue
  \/ LoadEvents
  \/ \E i \in TaskIds : LoadCreateFails(i)
  \/ StopEvents

SpecBridge == InitMounted /\ [][NextBridge]_vars

\* playSong(A), then playSong(B) while the load of A is in flight, then no
\* further user action; the device never fails
RaceFirst(song) ==
  /\ last.op = "create"
  /\ PlaySong(song)

RaceSecond(song) ==
  /\ last.op = "playSong" /\ ~last.again
  /\ song # currentSong
  /\ \E i \in 1..Len(tasks) : tasks[i].kind = "loadAndPlay" /\ tasks[i].song = currentSong
  /\ Step(playSong(World, song), "playSong", <<song>>, MaxHist)

NextRace ==
  \/ \E song \in Songs : RaceFirst(song)
  \/ \E song \in Songs : RaceSecond(song)
  \/ LoadEvents

SpecRace == InitMounted /\ [][NextRace]_vars

----------------------------------------------------------------------------
(* Song switches only (two songs, shuffle off), the history left to grow *)

HistoryRunBound == HistoryLimit + 2

HistoryPlaySong(song) == Step(playSong(World, song), "playSong", <<song>>, HistoryRunBound)

HistoryNextSong ==
  \E nextIndex \in nextSongChoices(World) :
    Step(nextSong(World, nextIndex), "nextSong", <<>>, HistoryRunBound)

NextHistory ==
  \/ \E song \in Songs : HistoryPlaySong(song)
  \/ HistoryNextSong

SpecHistory == Init /\ [][NextHistory]_vars

----------------------------------------------------------------------------
(* Position and duration: the store's time actions next to the bridge, MaxCalls *)
(* user calls at most                                                        *)

\* Seconds passed to seekTo, setCurrentTime and setDuration: below 0, inside
\* and beyond every song's duration
TimeInputs == -1..(NumSongs + 2)

SeekTo(time) ==
  /\ last.calls < MaxCalls
  /\ Step(seekTo(World, time), "seekTo", <<time>>, MaxHist)

SetCurrentTime(time) ==
  /\ last.calls < MaxCalls
  /\ Step(setCurrentTime(World, time), "setCurrentTime", <<>>, MaxHist)

SetDuration(d) ==
  /\ last.calls < MaxCalls
  /\ Step(setDuration(World, d), "setDuration", <<>>, MaxHist)

TimeRemoveFromQueue(index) == last.calls < MaxCalls /\ RemoveFromQueue(index)

NextTime ==
  \/ \E song \in Songs : BridgePlaySong(song)
  \/ \E time \in TimeInputs : SeekTo(time)
  \/ \E time \in TimeInputs : SetCurrentTime(time)
  \/ \E d \in TimeInputs : SetDuration(d)
  \/ \E index \in IndexInputs : TimeRemoveFromQueue(index)
  \/ BridgeClearQueue
  \/ LoadEvents

SpecTime == InitMounted /\ [][NextTime]_vars

----------------------------------------------------------------------------
(* Volume: the store's setVolume and the bridge's forwarding to the device *)

\* Volumes passed to setVolume (tenths): below 0, inside and above 1
VolumeInputs ==
  {0 - VolumeOne \div 5, 0, VolumeOne \div 2, VolumeOne, VolumeOne + VolumeOne \div 2}

SetVolume(v) ==
  /\ last.calls < MaxCalls
  /\ Step(setVolume(World, v), "setVolume", <<v>>, MaxHist)

VolumeSetDone(i) ==
  /\ IsTask(i, "setVolume", "setVolumeAsync")
  /\ Event(audioSetVolumeDone(World, i))

NextVolume ==
  \/ \E song \in Songs : BridgePlaySong(song)
  \/ \E v \in VolumeInputs : SetVolume(v)
  \/ \E i \in TaskIds : VolumeSetDone(i)
  \/ LoadEvents

SpecVolume == InitMounted /\ [][NextVolume]_vars

----------------------------------------------------------------------------
(* Walking forward and back: song switches with a history of up to BackHist *)

BackHist == 3

BackPlaySong(song) == Step(playSong(World, song), "playSong", <<song>>, BackHist)

BackToggleShuffle ==
  \E shuffled \in toggleShuffleChoices(World) :
    Step(toggleShuffle(World, shuffled), "toggleShuffle", <<>>, BackHist)

BackSetRepeat(mode) == Step(setRepeat(World, mode), "setRepeat", <<>>, BackHist)

BackNextSong ==
  \E nextIndex \in nextSongChoices(World) :
    Step(nextSong(World, nextIndex), "nextSong", <<>>, BackHist)

BackPreviousSong ==
  \E previousIndex \in previousSongChoices(World) :
    Step(previousSong(World, previousIndex), "previousSong", <<>>, BackHist)

NextBack ==
  \/ \E song \in Songs : BackPlaySong(song)
  \/ BackToggleShuffle
  \/ \E mode \in RepeatModes : BackSetRepeat(mode)
  \/ BackNextSong
  \/ BackPreviousSong

SpecBack == Init /\ [][NextBack]_vars

----------------------------------------------------------------------------
(* Playback running to its end: the device reports didJustFinish *)

\* A loaded, playing sound reaches its end (not looping): the device stops
\* playing it and reports the final status
DeviceFinish(k) ==
  /\ sounds[k].loaded /\ sounds[k].playing
  /\ \E nextIndex \in nextSongChoices(World) :
       Event(onPlaybackStatusUpdate([World EXCEPT !.sounds[k].playing = FALSE],
         [isPlaying |-> FALSE,
          positionMillis |-> SongDuration(sounds[k].song) * MsPerSecond,
          durationMillis |-> SongDuration(sounds[k].song) * MsPerSecond,
          didJustFinish |-> TRUE,
          isLooping |-> FALSE], nextIndex))

CompletionSeekDone(i) ==
  /\ IsTask(i, "completion", "setPositionAsync")
  /\ Event(completionSought(World, i))

CompletionPlayDone(i) ==
  /\ IsTask(i, "completion", "playAsync")
  /\ Event(completionPlayed(World, i))

FinishSetRepeat(mode) == last.calls < MaxCalls /\ SetRepeat(mode)

NextFinish ==
  \/ \E song \in Songs : BridgePlaySong(song)
  \/ \E mode \in RepeatModes : FinishSetRepeat(mode)
  \/ LoadEvents
  \/ \E k \in SoundIds : DeviceFinish(k)
  \/ \E i \in TaskIds : CompletionSeekDone(i)
  \/ \E i \in TaskIds : CompletionPlayDone(i)

SpecFinish == InitMounted /\ [][NextFinish]_vars

----------------------------------------------------------------------------
(* Loads that fail: a song without a link, a rejected createAsync, an error status *)

FailPlaySong(song) == last.calls < MaxCalls /\ PlaySong(song)

\* A fatal error disconnects a loaded sound: the device reports an unloaded
\* status that carries an error
DeviceError(k) ==
  /\ sounds[k].loaded
  /\ Event(onPlaybackStatusError(DeviceUnload(World, k)))

NextFail ==
  \/ \E song \in Songs \cup {NoLinkSong} : FailPlaySong(song)
  \/ LoadEvents
  \/ \E i \in TaskIds : LoadCreateFails(i)
  \/ \E k \in SoundIds : DeviceError(k)

SpecFail == InitMounted /\ [][NextFail]_vars

----------------------------------------------------------------------------
(* The queue screen: its handlers call the store with the queue and the      *)
(* current song of the render they were created in                           *)

\* queueWithoutCurrent (Queue.tsx lines 319-324)
queueWithoutCurrent(w) ==
  IF w.currentSong = Null THEN w.queue ELSE FilterOut(w.queue, w.currentSong)

\* The forEach of handleClearAll over the songs still to visit: every index is
\* looked up in renderedQueue, the queue of the render; a removeFromQueue that
\* throws ends the loop.  The result is the set of worlds the loop can end in
\* (one for each outcome of getNextSongIndex).
RECURSIVE handleClearAllLoop(_, _, _)
handleClearAllLoop(w, songs, renderedQueue) ==
  IF songs = <<>> \/ w.threw
  THEN {w}
  ELSE LET actualIndex == FindIndex(renderedQueue, Head(songs))
           removed == IF actualIndex = -1
                      THEN {w}
                      ELSE {removeFromQueue(w, actualIndex, nextIndex) :
                              nextIndex \in removeFromQueueChoices(w, actualIndex)}
       IN  UNION {handleClearAllLoop(x, Tail(songs), renderedQueue) : x \in removed}

\* handleClearAll (Queue.tsx lines 356-363)
handleClearAll(w) == handleClearAllLoop(w, queueWithoutCurrent(w), w.queue)

\* handleRemove (Queue.tsx lines 343-354): index is a row of the list shown
handleRemove(w, index) ==
  LET shown == queueWithoutCurrent(w)
      actualIndex == IF InRange(shown, index) THEN FindIndex(w.queue, At(shown, index)) ELSE -1
  IN  IF actualIndex = -1
      THEN {w}
      ELSE {removeFromQueue(w, actualIndex, nextIndex) :
              nextIndex \in removeFromQueueChoices(w, actualIndex)}

HandleClearAll ==
  \E w \in handleClearAll(World) : Step(w, "handleClearAll", <<>>, MaxHist)

HandleRemove(index) ==
  \E w \in handleRemove(World, index) : Step(w, "handleRemove", <<index>>, MaxHist)

NextScreen ==
  \/ \E song \in Songs : PlaySong(song)
  \/ \E song \in Songs : AddToQueue(song)
  \/ NextSong
  \/ PauseSong
  \/ \E mode \in RepeatModes : SetRepeat(mode)
  \/ \E index \in IndexInputs : HandleRemove(index)
  \/ HandleClearAll

SpecScreen == Init /\ [][NextScreen]_vars

----------------------------------------------------------------------------
(* Claims *)

\* C1: the play history never holds more than 50 songs
HistoryNeverExceedsLimit == Len(playHistory) <= HistoryLimit

\* C2: the visible queue equals the authoritative list: shuffledQueue when
\* shuffle is on, originalQueue when it is off
QueueEqualsAuthoritative == queue = (IF shuffle THEN shuffledQueue ELSE originalQueue)

\* C3: if queue is non-empty, the list the shuffle flag selects is non-empty
ActiveListNonEmpty ==
  Len(queue) > 0 => Len(IF shuffle THEN shuffledQueue ELSE originalQueue) > 0

\* The seven persisted slots hold the in-memory values of their fields
SlotsMatch ==
  /\ storage.QUEUE = Present(Stringify(queue))
  /\ storage.ORIGINAL_QUEUE = Present(Stringify(originalQueue))
  /\ storage.SHUFFLED_QUEUE = Present(Stringify(shuffledQueue))
  /\ storage.CURRENT_SONG = (IF currentSong # Null THEN Present(Stringify(currentSong)) ELSE Absent)
  /\ storage.SHUFFLE = Present(shuffle)
  /\ storage.REPEAT = Present(repeat)
  /\ storage.VOLUME = Present(volume)

\* C4: initializeFromStorage run on the snapshot savePlayerState wrote of the
\* current state reproduces queue, shuffle, repeat and volume
SaveLoadRoundTrip ==
  [][(SlotsMatch /\ InitializeFromStorage)
       => (queue' = queue /\ shuffle' = shuffle /\ repeat' = repeat /\ volume' = volume)]_vars

\* C5: a store action other than initializeFromStorage either leaves the seven
\* persisted fields and the storage as they were, or leaves every slot equal to
\* the final in-memory value of its field
PersistedFields == <<queue, originalQueue, shuffledQueue, currentSong, shuffle, repeat, volume>>

QueueActionsNeverThrow == ~threw

\* The songs of the sound objects loaded on the device
LoadedSounds == {k \in SoundIds : sounds[k].loaded}

\* C7: after pauseSong, isPlaying is false for as long as pauseSong is the last
\* user action, whatever load completions and device callbacks arrive
PauseStaysPaused == last.op = "pauseSong" => ~isPlaying

\* C8: after playSong(A) and playSong(B) during the load of A, every quiescent
\* state (no await pending) has currentSong = B and exactly B loaded
RaceSettlesOnLastSong ==
  (last.calls = 2 /\ tasks = <<>>)
    => /\ currentSong = last.arg[1]
       /\ {sounds[k].song : k \in LoadedSounds} = {last.arg[1]}

\* C9: at most one audio resource is loaded on the device
AtMostOneLoaded == Cardinality(LoadedSounds) <= 1

\* C10: a second addToQueue(song) right after the first leaves the three lists unchanged
AddToQueueIdempotent ==
  [][\A song \in Songs :
       (last.op = "addToQueue" /\ last.arg = <<song>> /\ AddToQueue(song))
         => UNCHANGED <<queue, originalQueue, shuffledQueue>>]_vars

AddToQueueIdempotentWitness ==
  /\ last.op = "addToQueue" /\ last.again
  /\ shuffle
  /\ Len(queue) = 2

\* The effective queue of the current state and the index of currentSong in it
EffectiveQueue == getEffectiveQueue(World)

CurrentIndex == FindIndex(EffectiveQueue, currentSong)

\* A nextSong call that gets past its two early returns
NextSongRuns ==
  /\ last'.op = "nextSong"
  /\ currentSong # Null /\ Len(queue) > 0 /\ CurrentIndex # -1

\* C11: with shuffle off and repeat off, nextSong moves from index i to i+1
\* (currentTime 0, the song's duration, isPlaying and isLoading true), and at
\* the last index it sets isPlaying false and keeps currentSong
NextSongSequential ==
  [][(NextSongRuns /\ ~shuffle /\ repeat = "off")
       => IF CurrentIndex < Len(EffectiveQueue) - 1
          THEN /\ currentSong' = At(EffectiveQueue, CurrentIndex + 1)
               /\ currentTime' = 0
               /\ duration' = SongDuration(currentSong')
               /\ isPlaying' /\ isLoading'
          ELSE ~isPlaying' /\ currentSong' = currentSong]_vars

\* nextSong has moved from the first to the second of two distinct songs
NextSongSequentialWitness ==
  /\ last.op = "nextSong" /\ ~shuffle /\ repeat = "off"
  /\ Len(originalQueue) = 2 /\ originalQueue[1] # originalQueue[2]
  /\ currentSong = originalQueue[2] /\ isPlaying /\ isLoading
  /\ playHistory # <<>> /\ playHistory[Len(playHistory)] = originalQueue[1]

\* C12: with shuffle off and repeat=all, nextSong at the last index makes the
\* first song of the effective queue current and keeps isPlaying true
NextSongWraps ==
  [][(NextSongRuns /\ ~shuffle /\ repeat = "all"
        /\ CurrentIndex = Len(EffectiveQueue) - 1)
       => (currentSong' = At(EffectiveQueue, 0) /\ isPlaying')]_vars

\* nextSong has wrapped from the second of two distinct songs to the first
NextSongWrapsWitness ==
  /\ last.op = "nextSong" /\ ~shuffle /\ repeat = "all"
  /\ Len(originalQueue) = 2 /\ originalQueue[1] # originalQueue[2]
  /\ currentSong = originalQueue[1] /\ isPlaying
  /\ playHistory # <<>> /\ playHistory[Len(playHistory)] = originalQueue[2]

\* C13: with repeat=one getNextSongIndex returns the input index, shuffle on or
\* off, and nextSong leaves currentSong and the play history unchanged
RepeatOneStays ==
  [][(last'.op = "nextSong" /\ repeat = "one")
       => /\ NextSongRuns => nextSongChoices(World) = {CurrentIndex}
          /\ currentSong' = currentSong
          /\ playHistory' = playHistory]_vars

\* nextSong has run under repeat=one and shuffle, on a paused song that is not
\* the first of its queue
RepeatOneStaysWitness ==
  /\ last.op = "nextSong" /\ repeat = "one" /\ shuffle
  /\ Len(shuffledQueue) = 2 /\ currentSong = shuffledQueue[2]
  /\ shuffledQueue[1] # shuffledQueue[2]
  /\ isPlaying /\ isLoading /\ currentTime = 0

\* C14: with shuffle on and more than one song, getNextSongIndex never returns
\* currentIndex (repeat off or all)
ShuffleNeverRepeatsCurrent ==
  [][(NextSongRuns /\ shuffle /\ repeat # "one" /\ Len(EffectiveQueue) > 1)
       => CurrentIndex \notin nextSongChoices(World)]_vars

\* removeFromQueue(index) gets past its bounds test and removes the current song
RemovesCurrent(index) ==
  /\ InRange(queue, index) /\ InRange(EffectiveQueue, index)
  /\ currentSong # Null /\ At(EffectiveQueue, index) = currentSong

\* C15: removing the current song when it is the last item, with repeat off,
\* leaves currentSong null and isPlaying false (shuffle on or off)
RemoveLastCurrentStops ==
  [][\A index \in IndexInputs :
       (last'.op = "removeFromQueue" /\ RemovesCurrent(index) /\ repeat = "off"
          /\ index = Len(EffectiveQueue) - 1 /\ RemoveFromQueue(index))
         => (currentSong' = Null /\ ~isPlaying')]_vars

\* the current song, last of a shuffled queue of two, has been removed
RemoveLastCurrentStopsWitness ==
  /\ last.op = "removeFromQueue" /\ shuffle /\ repeat = "off"
  /\ currentSong = Null /\ ~isPlaying /\ duration = 0
  /\ Len(queue) = 1 /\ queue = shuffledQueue
  /\ playHistory = queue

\* The song nextSong would select with shuffle off (Null when there is none)
NextInOrder ==
  LET choices == getNextSongIndex(CurrentIndex, Len(EffectiveQueue), FALSE, repeat)
      nextIndex == CHOOSE i \in choices : TRUE
  IN  IF nextIndex = NoIndex THEN Null ELSE At(EffectiveQueue, nextIndex)

\* C16: with shuffle off (repeat off or all), removing the current song makes
\* the song nextSong would have selected current, and clears currentSong only
\* when there is no such song
RemoveCurrentAdvances ==
  [][\A index \in IndexInputs :
       (RemoveFromQueue(index) /\ RemovesCurrent(index) /\ ~shuffle
          /\ repeat # "one" /\ index = CurrentIndex)
         => currentSong' = (IF NextInOrder = currentSong THEN Null ELSE NextInOrder)]_vars

\* C17: a step that changes currentSong from a song to a different song appends
\* the former to the play history
SongChangePushesHistory ==
  [][(currentSong # Null /\ currentSong' # Null /\ currentSong' # currentSong)
       => /\ playHistory' # <<>>
          /\ playHistory'[Len(playHistory')] = currentSong
          /\ Len(playHistory') >= Len(playHistory)]_vars

\* C18: reorderQueue(from, to) with both indices in range makes the effective
\* queue the old one with the item at `from` moved to position `to`
ReorderMovesItem ==
  [][\A from \in IndexInputs, to \in IndexInputs :
       (ReorderQueue(from, to) /\ InRange(queue, from) /\ InRange(queue, to)
          /\ InRange(EffectiveQueue, from) /\ InRange(EffectiveQueue, to))
         => EffectiveQueue' = InsertAt(RemoveAt(EffectiveQueue, from), to,
                                       At(EffectiveQueue, from))]_vars

\* C19: after toggleShuffle turns shuffle off, queue equals originalQueue
ShuffleOffRestoresOriginal ==
  [][(last'.op = "toggleShuffle" /\ shuffle /\ ~shuffle') => queue' = originalQueue']_vars

\* The number of entries of q that are song
Count(q, song) == Cardinality({i \in 1..Len(q) : q[i] = song})

\* C20: with shuffle on, shuffledQueue is a permutation of originalQueue
ShuffledIsPermutation ==
  shuffle => \A song \in Songs : Count(shuffledQueue, song) = Count(originalQueue, song)

\* C21: 0 <= currentTime <= duration in every reachable state
TimeWithinDuration == 0 <= currentTime /\ currentTime <= duration

\* C22: seekTo(t) sets currentTime to t clamped into [0, duration], changes no
\* other store field and writes nothing to the storage
SeekClampsOnly ==
  [][\A time \in TimeInputs :
       SeekTo(time)
         => /\ currentTime' = (IF time < 0 THEN 0
                               ELSE IF time > duration THEN duration ELSE time)
            /\ UNCHANGED <<currentSong, queue, originalQueue, shuffledQueue, isPlaying,
                           duration, isLoading, shuffle, repeat, volume, playHistory,
                           storage>>]_vars

\* seekTo beyond the duration of a playing song has clamped to the duration
SeekClampsOnlyWitness ==
  /\ last.op = "seekTo" /\ last.arg[1] > duration
  /\ currentSong # Null /\ duration = SongDuration(currentSong)
  /\ currentTime = duration

\* A volume inside [0, 1]
InUnit(v) == 0 <= v /\ v <= VolumeOne

\* C23: the stored volume is within [0, 1]; setVolume(v) stores v clamped to
\* [0, 1], and what the bridge forwards to the device is that clamped value
VolumeClamped ==
  [][/\ InUnit(volume')
     /\ \A k \in SoundIds : sounds'[k].loaded => InUnit(sounds'[k].volume)
     /\ \A v \in VolumeInputs :
          SetVolume(v)
            => /\ volume' = (IF v < 0 THEN 0 ELSE IF v > VolumeOne THEN VolumeOne ELSE v)
               /\ (sound # Null /\ volume' # volume)
                    => /\ Len(tasks') = Len(tasks) + 1
                       /\ tasks'[Len(tasks')].kind = "setVolume"
                       /\ tasks'[Len(tasks')].target = sound
                       /\ tasks'[Len(tasks')].arg = volume']_vars

\* setVolume below 0 has stored 0 and the loaded sound has received 0
VolumeClampedWitness ==
  /\ last.op = "setVolume" /\ last.arg[1] < 0
  /\ volume = 0
  /\ sound # Null /\ sounds[sound].loaded /\ sounds[sound].volume = 0
  /\ tasks = <<>>

\* C24: clearQueue empties the three lists, sets currentSong null, isPlaying
\* false, currentTime and duration 0, keeps shuffle, repeat and volume; a
\* playSong right after it plays the song from an empty queue
ClearQueueResets ==
  [][/\ last'.op = "clearQueue"
          => /\ queue' = <<>> /\ originalQueue' = <<>> /\ shuffledQueue' = <<>>
             /\ currentSong' = Null /\ ~isPlaying'
             /\ currentTime' = 0 /\ duration' = 0
             /\ UNCHANGED <<shuffle, repeat, volume>>
     /\ (last.op = "clearQueue" /\ last'.op = "playSong")
          => /\ currentSong' = last'.arg[1] /\ isPlaying' /\ isLoading'
             /\ currentTime' = 0 /\ duration' = SongDuration(currentSong')
             /\ queue' = <<currentSong'>>
             /\ UNCHANGED <<shuffle, repeat, volume, playHistory>>]_vars

\* clearQueue has run on a store with shuffle on, repeat all and a history
ClearQueueResetsWitness ==
  /\ last.op = "clearQueue" /\ shuffle /\ repeat = "all"
  /\ playHistory # <<>>
  /\ queue = <<>> /\ storage.QUEUE = Present(Stringify(<<>>))

\* C25: playSong(song) ends with currentSong = song, isPlaying, currentTime 0,
\* the song's duration, isLoading; a song of the effective queue leaves the
\* three lists alone, an absent one becomes the head of queue and, exactly
\* when shuffle is off, of originalQueue
PlaySongSwitches ==
  [][\A song \in Songs :
       (last'.op = "playSong" /\ last'.arg = <<song>>)
         => /\ currentSong' = song /\ isPlaying' /\ isLoading'
            /\ currentTime' = 0 /\ duration' = SongDuration(song)
            /\ IF FindIndex(EffectiveQueue, song) # -1
               THEN UNCHANGED <<queue, originalQueue, shuffledQueue>>
               ELSE /\ queue' # <<>> /\ queue'[1] = song
                    /\ originalQueue' = (IF shuffle THEN originalQueue
                                         ELSE <<song>> \o originalQueue)]_vars

\* playSong of an absent song under shuffle: head of queue, not of originalQueue
PlaySongSwitchesWitness ==
  /\ last.op = "playSong" /\ shuffle
  /\ Len(queue) = 2 /\ queue[1] = last.arg[1] /\ currentSong = queue[1]
  /\ FindIndex(originalQueue, currentSong) = -1 /\ originalQueue # <<>>

\* The store's fields, the play history and the persisted snapshot
StoreAndStorage ==
  <<currentSong, queue, originalQueue, shuffledQueue, isPlaying, currentTime, duration,
    isLoading, shuffle, repeat, volume, playHistory, storage>>

\* C26: removeFromQueue and reorderQueue with an index outside queue, and
\* resumeSong, nextSong and previousSong without a current song, change nothing
MeaninglessCallsAreNoOps ==
  [][/\ \A index \in IndexInputs :
          (last'.op = "removeFromQueue" /\ ~InRange(queue, index) /\ RemoveFromQueue(index))
            => UNCHANGED StoreAndStorage
     /\ \A from \in IndexInputs, to \in IndexInputs :
          (last'.op = "reorderQueue" /\ (~InRange(queue, from) \/ ~InRange(queue, to))
             /\ ReorderQueue(from, to))
            => UNCHANGED StoreAndStorage
     /\ (last'.op \in {"resumeSong", "nextSong", "previousSong"} /\ currentSong = Null)
          => UNCHANGED StoreAndStorage]_vars

\* resumeSong has been called without a current song, with songs queued
MeaninglessCallsAreNoOpsWitness ==
  /\ last.op = "resumeSong" /\ currentSong = Null /\ ~isPlaying
  /\ Len(queue) = 2

\* C27: with shuffle on, each nextSong that changes the song pushes the song it
\* left, and each previousSong makes the last history entry (a song still in
\* the queue, other than the current one) current and removes exactly that
\* entry: k previousSong calls after k nextSong calls walk back s(k-1), ..., s0
ShuffleWalksBack ==
  [][/\ (last'.op = "nextSong" /\ shuffle /\ currentSong' # currentSong)
          => playHistory' = Append(playHistory, currentSong)
     /\ (last'.op = "previousSong" /\ shuffle /\ currentSong # Null
           /\ CurrentIndex # -1 /\ playHistory # <<>>
           /\ FindIndex(EffectiveQueue, playHistory[Len(playHistory)]) # -1
           /\ playHistory[Len(playHistory)] # currentSong)
          => /\ currentSong' = playHistory[Len(playHistory)]
             /\ playHistory' = SubSeq(playHistory, 1, Len(playHistory) - 1)]_vars

\* two previousSong calls in a row under shuffle, with history left to walk
ShuffleWalksBackWitness ==
  /\ last.op = "previousSong" /\ last.again /\ shuffle
  /\ Len(playHistory) = 1 /\ currentSong # Null /\ currentSong # playHistory[1]
  /\ Len(shuffledQueue) = 2

\* The device reports the end of sound k: it was playing and is still loaded
Finished(k) ==
  /\ sounds[k].loaded /\ sounds[k].playing
  /\ sounds'[k].loaded /\ ~sounds'[k].playing

\* C28: when a sound finishes (didJustFinish, not looping, not playing), with
\* repeat one the store keeps currentSong, queue and history and the finished
\* sound is sought to 0 and then told to play; with repeat all or off nextSong
\* runs once, so that with repeat off on the last song isPlaying becomes false
\* and currentSong stays
PlaybackFinishHandled ==
  [][/\ \A k \in SoundIds :
          Finished(k) =>
            /\ repeat = "one" =>
                 /\ currentSong' = currentSong /\ queue' = queue
                 /\ playHistory' = playHistory
                 /\ tasks' = Append(tasks, Task("completion", "setPositionAsync", Null, k, 0))
            /\ (repeat = "off" /\ currentSong # Null
                  /\ CurrentIndex = Len(EffectiveQueue) - 1) =>
                 /\ ~isPlaying' /\ currentSong' = currentSong
                 /\ queue' = queue /\ playHistory' = playHistory
            /\ (repeat # "one" /\ currentSong # Null /\ CurrentIndex # -1
                  /\ NextInOrder # Null) =>
                 /\ currentSong' = NextInOrder /\ isPlaying'
                 /\ playHistory' = IF NextInOrder # currentSong
                                   THEN Append(playHistory, currentSong) ELSE playHistory
     /\ \A i \in TaskIds :
          (CompletionSeekDone(i) /\ sounds[tasks[i].target].loaded) =>
            /\ currentSong' = currentSong /\ queue' = queue /\ playHistory' = playHistory
            /\ tasks' = Append(RemoveAt(tasks, i - 1),
                               Task("completion", "playAsync", Null, tasks[i].target, 0))
     /\ \A i \in TaskIds :
          (CompletionPlayDone(i) /\ sounds[tasks[i].target].loaded) =>
            /\ currentSong' = currentSong /\ queue' = queue /\ playHistory' = playHistory
            /\ sounds'[tasks[i].target].playing /\ isPlaying']_vars

\* The loads in flight of w
Loads(w) == {i \in 1..Len(w.tasks) : w.tasks[i].kind = "loadAndPlay"}

\* The store shows no playback, currentSong and the lists are those of store
\* world w, nothing was thrown, and no load was started
FailureSettled(w) ==
  /\ ~isLoading' /\ ~isPlaying'
  /\ currentSong' = w.currentSong /\ queue' = w.queue
  /\ originalQueue' = w.originalQueue /\ shuffledQueue' = w.shuffledQueue
  /\ threw' = threw
  /\ Cardinality(Loads([tasks |-> tasks'])) <= Cardinality(Loads(World))

\* C29: when a load fails (the song has no link, found at once or after the
\* unload of the previous sound, or createAsync rejects) or the device reports
\* an error status, the store has isLoading and isPlaying false, currentSong
\* and the queues are unchanged, nothing is thrown and no load is started
LoadFailureSettles ==
  [][/\ (FailPlaySong(NoLinkSong) /\ sound = Null /\ previousSongIdRef # NoLinkSong)
          => FailureSettled(playSong([World EXCEPT !.mounted = FALSE], NoLinkSong))
     /\ \A i \in TaskIds :
          (LoadUnloadDone(i) /\ tasks[i].song = NoLinkSong) => FailureSettled(World)
     /\ \A i \in TaskIds : LoadCreateFails(i) => FailureSettled(World)
     /\ \A k \in SoundIds : DeviceError(k) => FailureSettled(World)]_vars

\* the song without a link was played while another sound was loaded, and the
\* failure has come after the unload
LoadFailureSettlesWitness ==
  /\ last.op = "playSong" /\ last.arg = <<NoLinkSong>> /\ last.calls = 2
  /\ currentSong = NoLinkSong /\ previousSongIdRef = NoLinkSong
  /\ tasks = <<>> /\ sound = Null /\ ~isPlaying /\ ~isLoading

\* C30: once currentSong has become null (clearQueue) with a song loaded or its
\* load in flight, and every await has resolved with no further user action,
\* nothing is loaded or playing on the device, the loaded-id marker is null,
\* currentSong is null and isPlaying is false
ClearedStaysStopped ==
  (last.op = "clearQueue" /\ tasks = <<>>)
    => /\ LoadedSounds = {}
       /\ previousSongIdRef = Null
       /\ currentSong = Null /\ ~isPlaying

\* C31: the isPlaying subscription decides from the store's currentSong of the
\* moment: with S loaded and playing on the device and no await pending,
\* pauseSong makes the bridge act on the device (a status query or a pause is
\* in flight, or the sound has stopped playing)
PauseReachesDevice ==
  [][(/\ last'.op = "pauseSong" /\ last'.calls # last.calls
      /\ tasks = <<>> /\ isPlaying /\ sound # Null
      /\ sounds[sound].loaded /\ sounds[sound].playing
      /\ sounds[sound].song = currentSong)
       => (tasks' # <<>> \/ ~sounds'[sound].playing)]_vars

\* C32: isLoading is true only while a load is in flight: when playSong is the
\* last user action and every await has resolved (only periodic statuses can
\* still arrive, and they leave isLoading alone), isLoading is false
LoadingEnds ==
  (last.op = "playSong" /\ tasks = <<>>) => ~isLoading

\* C33: no two songs of queue have the same id, and none of originalQueue either
QueuesHaveUniqueIds ==
  \A song \in Songs : Count(queue, song) <= 1 /\ Count(originalQueue, song) <= 1

\* C34: after playSong(song), song is in the effective queue (shuffle on or off)
PlayedSongIsInEffectiveQueue ==
  last.op = "playSong" => FindIndex(EffectiveQueue, currentSong) # -1

\* C35: addToQueue(song) keeps every song of queue in queue, and song is in
\* queue afterwards
AddToQueueKeepsSongs ==
  [][\A song \in Songs :
       (last'.op = "addToQueue" /\ last'.arg = <<song>>)
         => /\ Range(queue) \subseteq Range(queue')
            /\ song \in Range(queue')]_vars

LoadCompletionKeepsCurrentSong ==
  [][\A i \in TaskIds : LoadCreateDone(i) => currentSong' = currentSong]_vars

\* C38: after the load of song S has failed (S is the last song the bridge
\* tried, nothing is loaded and no await is pending), playSong(S) makes the
\* bridge issue a new load of S
FailedSongLoadsAgain ==
  [][\A song \in Songs :
       (/\ last'.op = "playSong" /\ last'.arg = <<song>> /\ last'.calls # last.calls
        /\ previousSongIdRef = song /\ tasks = <<>> /\ LoadedSounds = {})
         => \E i \in 1..Len(tasks') :
              tasks'[i].kind = "loadAndPlay" /\ tasks'[i].song = song]_vars

\* C39: isPlaying true implies that there is a current song
PlayingHasCurrentSong == isPlaying => currentSong # Null

\* C40: on a queue of unique songs with shuffle off, handleClearAll leaves in
\* queue the current song only (nothing when there is no current song)
ClearAllKeepsCurrentOnly ==
  [][(last'.op = "handleClearAll" /\ ~shuffle /\ QueuesHaveUniqueIds)
       => queue' = SelectSeq(queue, LAMBDA s : s = currentSong)]_vars

====
